---------------------------- MODULE Spec2Model ----------------------------
(***************************************************************************)
(* The iCalendar (VTODO) codec, the sort and the app of taskmaster-rs.      *)
(*                                                                         *)
(*   TaskList::to_ical_string  (src/src/parser.rs:218-310)   "encode"      *)
(*   TaskList::from_ical_file  (src/src/parser.rs:43-173)    "decode"      *)
(*   TaskList::sort            (src/src/task.rs:60-85)                     *)
(*   App::update               (src/src/app.rs:48-281)       one frame     *)
(*                                                                         *)
(* Text is modelled as TLA+ strings, character by character: the encoder   *)
(* builds the file text, the property lexer cuts it into NAME:VALUE        *)
(* records, and the decoder is the loop of from_ical_file, one action per  *)
(* arm of its match.  The decoder reads either the text the encoder has    *)
(* just produced (src is a TaskList) or an arbitrary file whose lines are  *)
(* chosen one at a time from FileLines (src = NoList).                     *)
(***************************************************************************)
EXTENDS Integers, Sequences, FiniteSets, TLC

VARIABLES
    src,           \* the TaskList handed to to_ical_string, or NoList
    ical_text,     \* the text returned by to_ical_string ("" before it ran)
    rest,          \* the lines of the file the lexer has not read yet
    line,          \* the physical line the loop is processing (the last one read)
    nread,         \* number of lines read so far
    list,          \* from_ical_file: let mut list
    tasks,         \* from_ical_file: let mut tasks
    task_counter,  \* from_ical_file: let mut task_counter
    result,        \* "running", "Ok", an error of ParseFromFileError, or "panic"
    returned,      \* the TaskList inside Ok(..), NoList otherwise
    pc,            \* "encode", "decode" or "done" ("idle": the codec is not run)
    input_task,            \* App.input_task
    input_task_list,       \* App.input_task_list
    show_completed_tasks,  \* App.show_completed_tasks
    sort_by,               \* App.sort_by
    show_full_edit,        \* App.show_full_edit
    import_dialog,         \* App.import_dialog: "None", or the dialog "Open" or "Closed"
    imported_list,         \* App.imported_list
    export_dialog,         \* App.export_dialog: "None", or the dialog "Open" or "Closed"
    presort,               \* the tasks of input_task_list before the last sort
    disk,                  \* the file at the path of the export dialog
    crashed                \* the thread of App::update has panicked

\* The codec: the text and the locals of from_ical_file.
codec_vars == <<src, ical_text, rest, line, nread, list, tasks, task_counter,
                result, returned, pc>>

\* struct App (app.rs:20-33).
app_vars == <<input_task, input_task_list, show_completed_tasks, sort_by,
              show_full_edit, import_dialog, imported_list, export_dialog, presort,
              disk, crashed>>

vars == <<codec_vars, app_vars>>

-----------------------------------------------------------------------------
(* Bounds *)

\* Longest arbitrary file, in lines.
MaxLines == 4

\* Longest TaskList handed to the encoder, in tasks.
MaxSrcTasks == 2

-----------------------------------------------------------------------------
(* Characters and numbers *)

NL == "\n"

BS == "\\"

Char(s, i) == SubSeq(s, i, i)

DecDigits == "0123456789"

HexDigits == "0123456789ABCDEF"

HexDigitsLower == "0123456789abcdef"

RECURSIVE IndexFrom(_, _, _)
\* Index of the first occurrence of character c in s at or after i, 0 if none.
IndexFrom(s, c, i) ==
    IF i > Len(s) THEN 0
    ELSE IF Char(s, i) = c THEN i
    ELSE IndexFrom(s, c, i + 1)

IndexOf(s, c) == IndexFrom(s, c, 1)

IsDigit(c) == IndexOf(DecDigits, c) # 0

DigitVal(c) == IndexOf(DecDigits, c) - 1

AllDigits(s) == \A i \in 1..Len(s) : IsDigit(Char(s, i))

RECURSIVE DecVal(_)
\* Value of a non-empty string of decimal digits.
DecVal(s) ==
    IF Len(s) = 0 THEN 0
    ELSE 10 * DecVal(SubSeq(s, 1, Len(s) - 1)) + DigitVal(Char(s, Len(s)))

RECURSIVE Dec(_)
\* format!("{}", n) for an unsigned integer.
Dec(n) ==
    IF n < 10 THEN Char(DecDigits, n + 1)
    ELSE Dec(n \div 10) \o Char(DecDigits, (n % 10) + 1)

RECURSIVE ZeroPad(_, _)
\* s padded on the left with zeros to width w.
ZeroPad(s, w) == IF Len(s) >= w THEN s ELSE ZeroPad("0" \o s, w)

\* Largest value of a u8 (Task.priority and Task.progress are u8).
U8Max == 255

\* str::parse::<u8>: an optional '+', then one or more digits, at most 255.
ParseU8(s) ==
    LET body == IF Len(s) > 0 /\ Char(s, 1) = "+" THEN SubSeq(s, 2, Len(s)) ELSE s
    IN  IF Len(body) > 0 /\ AllDigits(body) /\ DecVal(body) <= U8Max
        THEN [ok |-> TRUE, val |-> DecVal(body)]
        ELSE [ok |-> FALSE, val |-> 0]

RECURSIVE ReplaceNewline(_)
\* String::replace('\n', "\\n"): every newline becomes backslash, n.
ReplaceNewline(s) ==
    IF Len(s) = 0 THEN ""
    ELSE IF Char(s, 1) = NL THEN BS \o "n" \o ReplaceNewline(SubSeq(s, 2, Len(s)))
    ELSE Char(s, 1) \o ReplaceNewline(SubSeq(s, 2, Len(s)))

RECURSIVE ReplaceEscape(_)
\* String::replace("\\n", "\n"): every backslash-n pair, matched left to
\* right without overlap, becomes a newline.
ReplaceEscape(s) ==
    IF Len(s) = 0 THEN ""
    ELSE IF Len(s) >= 2 /\ Char(s, 1) = BS /\ Char(s, 2) = "n"
         THEN NL \o ReplaceEscape(SubSeq(s, 3, Len(s)))
    ELSE Char(s, 1) \o ReplaceEscape(SubSeq(s, 2, Len(s)))


-----------------------------------------------------------------------------
(* Dates: chrono::NaiveDate and chrono::NaiveDateTime *)

\* Option::None for Task.due.
NoDate == [none |-> TRUE]

Date(y, m, d) == [y |-> y, m |-> m, d |-> d]

DateTime(date, h, mi, s, ns) == [date |-> date, h |-> h, mi |-> mi, s |-> s, ns |-> ns]

\* NaiveDate::and_time(NaiveTime::default()): midnight of that day.
AndMidnight(date) == DateTime(date, 0, 0, 0, 0)

IsLeap(y) == (y % 4 = 0 /\ y % 100 # 0) \/ y % 400 = 0

DaysInMonth(y, m) ==
    IF m = 2 THEN (IF IsLeap(y) THEN 29 ELSE 28)
    ELSE IF m \in {4, 6, 9, 11} THEN 30 ELSE 31

\* datetime.format("%Y%m%dT%H%M%S"): the sub-second part is not written.
datetime_to_ical_str(dt) ==
    ZeroPad(Dec(dt.date.y), 4) \o ZeroPad(Dec(dt.date.m), 2) \o ZeroPad(Dec(dt.date.d), 2)
      \o "T" \o ZeroPad(Dec(dt.h), 2) \o ZeroPad(Dec(dt.mi), 2) \o ZeroPad(Dec(dt.s), 2)

\* NaiveDateTime::parse_from_str(s, "%Y%m%dT%H%M%S") on the fixed-width form
\* YYYYMMDDTHHMMSS: fifteen characters, a calendar date and a time of day.
ParseDateTime(s) ==
    LET shape == /\ Len(s) = 15
                 /\ Char(s, 9) = "T"
                 /\ AllDigits(SubSeq(s, 1, 8))
                 /\ AllDigits(SubSeq(s, 10, 15))
        y  == DecVal(SubSeq(s, 1, 4))
        m  == DecVal(SubSeq(s, 5, 6))
        d  == DecVal(SubSeq(s, 7, 8))
        h  == DecVal(SubSeq(s, 10, 11))
        mi == DecVal(SubSeq(s, 12, 13))
        sc == DecVal(SubSeq(s, 14, 15))
    IN  IF /\ shape
           /\ m \in 1..12
           /\ d \in 1..DaysInMonth(y, m)
           /\ h \in 0..23 /\ mi \in 0..59 /\ sc \in 0..59
        THEN [ok |-> TRUE, val |-> DateTime(Date(y, m, d), h, mi, sc, 0)]
        ELSE [ok |-> FALSE, val |-> DateTime(Date(0, 1, 1), 0, 0, 0, 0)]

\* chrono::Utc::now(): the clock reading given to every Task::default().
Now == DateTime(Date(2026, 1, 2), 3, 4, 5, 678)

-----------------------------------------------------------------------------
(* Colors: egui::Color32 as its three channels *)

Rgb(r, g, b) == [r |-> r, g |-> g, b |-> b]

\* egui::Color32::DEBUG_COLOR, the color of TaskList::default().
DEBUG_COLOR == Rgb(0, 200, 0)

\* format!("{:X}", n) for a u8: upper-case hexadecimal, no padding.
UpperHex(n) ==
    IF n < 16 THEN Char(HexDigits, n + 1)
    ELSE Char(HexDigits, (n \div 16) + 1) \o Char(HexDigits, (n % 16) + 1)

\* format_args!("#{:X}{:X}{:X}", r, g, b)
ColorToHex(c) == "#" \o UpperHex(c.r) \o UpperHex(c.g) \o UpperHex(c.b)

IsHex(c) == IndexOf(HexDigits, c) # 0 \/ IndexOf(HexDigitsLower, c) # 0

HexVal(c) ==
    IF IndexOf(HexDigits, c) # 0 THEN IndexOf(HexDigits, c) - 1
    ELSE IndexOf(HexDigitsLower, c) - 1

RECURSIVE HexNum(_)
HexNum(s) ==
    IF Len(s) = 0 THEN 0
    ELSE 16 * HexNum(SubSeq(s, 1, Len(s) - 1)) + HexVal(Char(s, Len(s)))

RECURSIVE StripHash(_)
\* str::replace("#", "")
StripHash(s) ==
    IF Len(s) = 0 THEN ""
    ELSE IF Char(s, 1) = "#" THEN StripHash(SubSeq(s, 2, Len(s)))
    ELSE Char(s, 1) \o StripHash(SubSeq(s, 2, Len(s)))

RECURSIVE DoubleEach(_)
DoubleEach(s) ==
    IF Len(s) = 0 THEN ""
    ELSE Char(s, 1) \o Char(s, 1) \o DoubleEach(SubSeq(s, 2, Len(s)))

\* colorsys::Rgb::from_hex_str: '#' removed, three digits are doubled, any
\* length other than three or six is an error, then the six hexadecimal
\* digits are read as 0xRRGGBB.
from_hex_str(value) ==
    LET h0  == StripHash(value)
        hex == IF Len(h0) = 3 THEN DoubleEach(h0) ELSE h0
    IN  IF Len(hex) = 6 /\ \A i \in 1..6 : IsHex(Char(hex, i))
        THEN [ok |-> TRUE,
              val |-> Rgb(HexNum(SubSeq(hex, 1, 2)), HexNum(SubSeq(hex, 3, 4)),
                          HexNum(SubSeq(hex, 5, 6)))]
        ELSE [ok |-> FALSE, val |-> DEBUG_COLOR]

-----------------------------------------------------------------------------
(* The data model: src/src/task.rs *)

TaskStatus == {"InProgress", "NeedsAction", "Completed", "Cancelled"}

\* The identifier Task::default() generates.
FreshUuid == "fresh-uuid"

\* impl Default for Task
DefaultTask ==
    [uuid        |-> FreshUuid,
     summary     |-> "New task",
     completed   |-> FALSE,
     description |-> "",
     progress    |-> 0,
     priority    |-> 0,
     status      |-> "InProgress",
     due         |-> NoDate,
     created     |-> Now,
     show_modal  |-> FALSE]

\* impl Default for TaskList
DefaultList == [name |-> "New list", tasks |-> <<>>, color |-> DEBUG_COLOR]

\* No TaskList: nothing to encode, or nothing returned.
NoList == [none |-> TRUE]

-----------------------------------------------------------------------------
(* The property lexer: ical::PropertyParser over the lines of the file.    *)
(* The values of the model carry no leading or trailing white space, so    *)
(* the lexer's trimming and unfolding of continuation lines change nothing *)
(* and are left out.                                                       *)

RECURSIVE Lines(_)
\* The lines of a text, in order, the empty ones skipped (BufRead::lines cuts
\* at every newline and the reader passes over empty lines).
Lines(s) ==
    LET i == IndexOf(s, NL)
    IN  IF Len(s) = 0 THEN <<>>
        ELSE IF i = 0 THEN << s >>
        ELSE IF i = 1 THEN Lines(SubSeq(s, 2, Len(s)))
        ELSE << SubSeq(s, 1, i - 1) >> \o Lines(SubSeq(s, i + 1, Len(s)))

RECURSIVE TrimColons(_)
\* str::trim_start_matches(':')
TrimColons(s) ==
    IF Len(s) > 0 /\ Char(s, 1) = ":" THEN TrimColons(SubSeq(s, 2, Len(s))) ELSE s

\* One line to a property: the name ends at the first ';' or ':', the
\* parameters (if any) end at the next ':', the value is what follows, and an
\* empty value is no value.  A line with no name or no ':' is malformed.
ParseProperty(ln) ==
    LET c   == IndexOf(ln, ":")
        p   == IndexOf(ln, ";")
        bad == [ok |-> FALSE, name |-> "", has_value |-> FALSE, value |-> ""]
        end_name == IF p # 0 /\ (c = 0 \/ p < c) /\ p # 1 THEN p
                    ELSE IF c # 0 /\ c # 1 THEN c
                    ELSE 0
    IN  IF end_name = 0 \/ c = 0 THEN bad
        ELSE LET v == TrimColons(SubSeq(ln, IndexFrom(ln, ":", end_name), Len(ln)))
             IN  [ok        |-> TRUE,
                  name      |-> SubSeq(ln, 1, end_name - 1),
                  has_value |-> Len(v) > 0,
                  value     |-> v]

-----------------------------------------------------------------------------
(* Encode: TaskList::to_ical_string *)

\* StatusToken with the status field written whatever completed is.
StatusToken_FieldOnly(task) ==
    CASE task.status = "InProgress"  -> "IN-PROGRESS"
      [] task.status = "NeedsAction" -> "NEEDS-ACTION"
      [] task.status = "Completed"   -> "COMPLETED"
      [] task.status = "Cancelled"   -> "CANCELLED"

\* The text after "STATUS:" (parser.rs:284-295): the checkbox takes precedence.
StatusToken(task) ==
    IF task.completed THEN "COMPLETED"
    ELSE CASE task.status = "InProgress"  -> "IN-PROGRESS"
           [] task.status = "NeedsAction" -> "NEEDS-ACTION"
           [] task.status = "Completed"   -> "COMPLETED"
           [] task.status = "Cancelled"   -> "CANCELLED"

\* The optional lines of a block (parser.rs:262-281 and 296-301).
DueText(task) ==
    IF task.due = NoDate THEN ""
    ELSE "DUE:" \o datetime_to_ical_str(AndMidnight(task.due)) \o NL

\* PriorityText with the line written for priority 0 too.
PriorityText_Always(task) == "PRIORITY:" \o Dec(task.priority) \o NL

PriorityText(task) ==
    IF task.priority # 0 THEN "PRIORITY:" \o Dec(task.priority) \o NL ELSE ""

ProgressText(task) ==
    IF task.progress # 0 THEN "PERCENT-COMPLETE:" \o Dec(task.progress) \o NL ELSE ""

DescriptionText(task) ==
    IF task.description # ""
    THEN "DESCRIPTION:" \o ReplaceNewline(task.description) \o NL
    ELSE ""

\* One pass of the loop "for task in &self.tasks" (parser.rs:243-304).
TaskText(task) ==
    NL \o "BEGIN:VTODO" \o NL
      \o "UID:" \o task.uuid \o NL
      \o "CREATED:" \o datetime_to_ical_str(task.created) \o NL
      \o "LAST-MODIFIED:" \o datetime_to_ical_str(Now) \o NL
      \o "DTSTAMP:" \o datetime_to_ical_str(Now) \o NL
      \o "SUMMARY:" \o task.summary \o NL
      \o DueText(task)
      \o PriorityText(task)
      \o ProgressText(task)
      \o "STATUS:" \o StatusToken(task) \o NL
      \o DescriptionText(task)
      \o "END:VTODO" \o NL

RECURSIVE TasksText(_)
TasksText(ts) == IF Len(ts) = 0 THEN "" ELSE TaskText(Head(ts)) \o TasksText(Tail(ts))

\* The header written by the format! call (parser.rs:221-240); it ends
\* without a newline.
HeaderText(l) ==
    "BEGIN:VCALENDAR" \o NL
      \o "VERSION:2.0" \o NL
      \o "CALSCALE:GREGORIAN" \o NL
      \o "PRODID:-//taskmaster-rs//github.com//" \o NL
      \o "X-WR-CALNAME:" \o l.name \o NL
      \o "X-APPLE-CALENDAR-COLOR:" \o ColorToHex(l.color) \o NL
      \o "REFRESH-INTERVAL;VALUE=DURATION:PT4H" \o NL
      \o "X-PUBLISHED-TTL:PT4H"

to_ical_string(l) == HeaderText(l) \o TasksText(l.tasks) \o "END:VCALENDAR" \o NL

-----------------------------------------------------------------------------
(* Inputs *)

Created1 == DateTime(Date(2023, 8, 1), 15, 12, 8, 0)

Created2 == DateTime(Date(1970, 1, 1), 0, 0, 0, 500)

Due1 == Date(2023, 8, 25)

Task1 ==
    [DefaultTask EXCEPT !.uuid = "u1", !.summary = "Task 1", !.status = "NeedsAction",
                        !.created = Created1]

\* The tasks handed to the encoder: every pairing of completed with status,
\* zero and nonzero priority and progress, with and without a due date, and
\* descriptions made of letters, newlines, backslashes and the letter n.
SrcTasks ==
    { Task1,
      [Task1 EXCEPT !.uuid = "u2", !.status = "InProgress", !.completed = TRUE,
                    !.priority = 9, !.description = "a" \o NL \o "b", !.due = Due1],
      [Task1 EXCEPT !.uuid = "u3", !.status = "Completed", !.progress = 47,
                    !.description = "a" \o BS \o "n", !.created = Created2],
      [Task1 EXCEPT !.uuid = "u4", !.status = "Cancelled", !.completed = TRUE,
                    !.priority = 9, !.progress = 47,
                    !.description = "n" \o BS \o NL],
      [Task1 EXCEPT !.uuid = "u5", !.status = "Completed", !.completed = TRUE,
                    !.priority = 255, !.progress = 100, !.description = NL],
      [Task1 EXCEPT !.uuid = "u6", !.status = "NeedsAction", !.completed = TRUE,
                    !.summary = "a"],
      [Task1 EXCEPT !.uuid = "u7", !.status = "InProgress", !.summary = ""],
      [Task1 EXCEPT !.uuid = "u8", !.status = "Cancelled", !.due = Due1,
                    !.description = BS] }

SrcColors == { Rgb(83, 130, 163), Rgb(5, 130, 163), Rgb(1, 2, 3), Rgb(255, 16, 0) }

RECURSIVE SeqsUpTo(_, _)
\* All sequences over S of length at most n.
SeqsUpTo(S, n) ==
    IF n = 0 THEN { <<>> }
    ELSE SeqsUpTo(S, n - 1)
           \cup { Append(q, x) : q \in { r \in SeqsUpTo(S, n - 1) : Len(r) = n - 1 }, x \in S }

\* The lists handed to the encoder.
SrcLists ==
    { [name |-> "test", tasks |-> ts, color |-> Rgb(83, 130, 163)] :
          ts \in SeqsUpTo(SrcTasks, MaxSrcTasks) }
      \cup { [name |-> "test", tasks |-> << Task1 >>, color |-> c] : c \in SrcColors }
      \cup { [name |-> "", tasks |-> << Task1 >>, color |-> Rgb(83, 130, 163)] }

\* The lines an arbitrary file is made of: every recognized property with a
\* good and a bad value, a property with no value, an unknown property with
\* and without a value and a line that is no property.
FileLines ==
    { "BEGIN:VCALENDAR", "BEGIN:VTODO", "BEGIN:VEVENT",
      "END:VTODO", "END:VCALENDAR",
      "X-WR-CALNAME:T",
      "X-APPLE-CALENDAR-COLOR:#5382A3", "X-APPLE-CALENDAR-COLOR:#582A3",
      "SUMMARY:Task 1", "SUMMARY:",
      "DUE:20230825T000000", "DUE:2023-08-25",
      "PRIORITY:9", "PRIORITY:200", "PRIORITY:abc",
      "PERCENT-COMPLETE:47", "PERCENT-COMPLETE:300",
      "STATUS:COMPLETED", "STATUS:NEEDS-ACTION", "STATUS:DONE",
      "DESCRIPTION:desc" \o BS \o "n",
      "CREATED:20230801T151208", "CREATED:yesterday",
      "VERSION:2.0", "X-UNKNOWN:",
      "no separator" }

-----------------------------------------------------------------------------
(* Decode: the loop of TaskList::from_ical_file *)

Errors == {"InvalidFile", "InvalidStatus", "NonTaskItem", "InvalidField"}

\* The lines the lexer can yield next.
NextLines ==
    IF src = NoList
    THEN (IF nread < MaxLines THEN FileLines ELSE {})
    ELSE (IF Len(rest) > 0 THEN { Head(rest) } ELSE {})

\* "for line in lines": the loop takes line ln from the lexer.
Read(ln) ==
    /\ pc = "decode"
    /\ ln \in NextLines
    /\ line' = ln
    /\ nread' = nread + 1
    /\ rest' = IF src = NoList THEN rest ELSE Tail(rest)
    /\ UNCHANGED <<src, ical_text>>
    /\ UNCHANGED app_vars

\* The lexer's records of the lines of FileLines.
FileProperties == [ln \in FileLines |-> ParseProperty(ln)]

\* The property the lexer makes of line ln.
Property(ln) ==
    IF ln \in FileLines THEN FileProperties[ln] ELSE ParseProperty(ln)

\* The line is a property with a value whose name is n.
Is(ln, n) ==
    LET prop == Property(ln) IN prop.ok /\ prop.has_value /\ prop.name = n

Value(ln) == Property(ln).value

\* "return Err(e)"
Fail(e) ==
    /\ result' = e
    /\ pc' = "done"
    /\ UNCHANGED <<list, tasks, task_counter, returned>>

\* tasks[task_counter] with task_counter out of range: the thread panics.
Panic ==
    /\ result' = "panic"
    /\ pc' = "done"
    /\ UNCHANGED <<list, tasks, task_counter, returned>>

\* The arm is done and the loop goes on to the next line.
Continue == UNCHANGED <<result, returned, pc>>

\* The task the arms address: tasks[task_counter] (a 0-based index).
HasCursorTask == task_counter < Len(tasks)

CursorTask == tasks[task_counter + 1]

\* tasks[task_counter] = t
SetCursorTask(t) ==
    IF HasCursorTask
    THEN /\ tasks' = [tasks EXCEPT ![task_counter + 1] = t]
         /\ UNCHANGED <<list, task_counter>>
         /\ Continue
    ELSE Panic

\* No parse result stored: None.
None == [none |-> TRUE]

\* No file at the path.
NoFile == [exists |-> FALSE, text |-> ""]

\* A file at the path, holding text.
File(text) == [exists |-> TRUE, text |-> text]

\* App::new (app.rs:37-42): every field is its default.
AppNew ==
    /\ input_task = DefaultTask
    /\ input_task_list = DefaultList
    /\ show_completed_tasks = FALSE
    /\ sort_by = "None"
    /\ show_full_edit = FALSE
    /\ import_dialog = "None"
    /\ imported_list = None
    /\ export_dialog = "None"
    /\ presort = <<>>

-----------------------------------------------------------------------------
(* Actions *)

Init ==
    /\ \/ src \in SrcLists /\ pc = "encode"
       \/ src = NoList /\ pc = "decode"
    /\ ical_text = ""
    /\ rest = <<>>
    /\ line = ""
    /\ nread = 0
    /\ list = DefaultList
    /\ tasks = <<>>
    /\ task_counter = 0
    /\ result = "running"
    /\ returned = NoList
    /\ AppNew
    /\ disk = NoFile
    /\ crashed = FALSE

\* The list is exported and the exported text is then read back.
Encode ==
    /\ pc = "encode"
    /\ ical_text' = to_ical_string(src)
    /\ rest' = Lines(to_ical_string(src))
    /\ pc' = "decode"
    /\ UNCHANGED <<src, line, nread, list, tasks, task_counter, result, returned>>
    /\ UNCHANGED app_vars

\* DecodeMalformed with the malformed line passed over instead of returned
\* as an error.
DecodeMalformed_Skip ==
    \E ln \in NextLines :
        /\ Read(ln)
        /\ ~Property(ln).ok
        /\ UNCHANGED <<list, tasks, task_counter>>
        /\ Continue

\* parser.rs:60 and 165-168: the lexer reports the line as malformed.
DecodeMalformed ==
    \E ln \in NextLines :
        /\ Read(ln)
        /\ ~Property(ln).ok
        /\ Fail("InvalidFile")

\* parser.rs:62-67: the property has no value.
DecodeNoValue ==
    \E ln \in NextLines :
        /\ Read(ln)
        /\ Property(ln).ok
        /\ ~Property(ln).has_value
        /\ Fail("InvalidField")

\* parser.rs:71
DecodeCalName ==
    \E ln \in NextLines :
        /\ Read(ln)
        /\ Is(ln, "X-WR-CALNAME")
        /\ list' = [list EXCEPT !.name = Value(ln)]
        /\ UNCHANGED <<tasks, task_counter>>
        /\ Continue

\* DecodeCalColor with a colour that does not parse returned as an error.
DecodeCalColor_Strict ==
    \E ln \in NextLines :
        /\ Read(ln)
        /\ Is(ln, "X-APPLE-CALENDAR-COLOR")
        /\ LET rgb == from_hex_str(Value(ln))
           IN  IF rgb.ok
               THEN /\ list' = [list EXCEPT !.color = rgb.val]
                    /\ UNCHANGED <<tasks, task_counter>>
                    /\ Continue
               ELSE Fail("InvalidField")

\* parser.rs:73-82
DecodeCalColor ==
    \E ln \in NextLines :
        /\ Read(ln)
        /\ Is(ln, "X-APPLE-CALENDAR-COLOR")
        /\ LET rgb == from_hex_str(Value(ln))
           IN  list' = IF rgb.ok THEN [list EXCEPT !.color = rgb.val] ELSE list
        /\ UNCHANGED <<tasks, task_counter>>
        /\ Continue

\* DecodeBegin with every component other than VTODO passed over.
DecodeBegin_Lenient ==
    \E ln \in NextLines :
        /\ Read(ln)
        /\ Is(ln, "BEGIN")
        /\ IF Value(ln) = "VTODO"
           THEN /\ tasks' = Append(tasks, DefaultTask)
                /\ UNCHANGED <<list, task_counter>>
                /\ Continue
           ELSE /\ UNCHANGED <<list, tasks, task_counter>>
                /\ Continue

\* parser.rs:84-93
DecodeBegin ==
    \E ln \in NextLines :
        /\ Read(ln)
        /\ Is(ln, "BEGIN")
        /\ CASE Value(ln) = "VTODO" ->
                  /\ tasks' = Append(tasks, DefaultTask)
                  /\ UNCHANGED <<list, task_counter>>
                  /\ Continue
             [] Value(ln) = "VCALENDAR" ->
                  /\ UNCHANGED <<list, tasks, task_counter>>
                  /\ Continue
             [] OTHER -> Fail("NonTaskItem")

\* parser.rs:95-97
DecodeSummary ==
    \E ln \in NextLines :
        /\ Read(ln)
        /\ Is(ln, "SUMMARY")
        /\ SetCursorTask([CursorTask EXCEPT !.summary = Value(ln)])

\* parser.rs:99-108
DecodeDue ==
    \E ln \in NextLines :
        /\ Read(ln)
        /\ Is(ln, "DUE")
        /\ LET date == ParseDateTime(Value(ln))
           IN  IF date.ok
               THEN SetCursorTask([CursorTask EXCEPT !.due = date.val.date])
               ELSE Fail("InvalidField")

\* parser.rs:110-116
DecodePriority ==
    \E ln \in NextLines :
        /\ Read(ln)
        /\ Is(ln, "PRIORITY")
        /\ LET priority == ParseU8(Value(ln))
           IN  IF priority.ok
               THEN SetCursorTask([CursorTask EXCEPT !.priority = priority.val])
               ELSE Fail("InvalidField")

\* parser.rs:118-124
DecodePercentComplete ==
    \E ln \in NextLines :
        /\ Read(ln)
        /\ Is(ln, "PERCENT-COMPLETE")
        /\ LET progress == ParseU8(Value(ln))
           IN  IF progress.ok
               THEN SetCursorTask([CursorTask EXCEPT !.progress = progress.val])
               ELSE Fail("InvalidField")

\* parser.rs:126-138: the task is borrowed before the token is matched.
DecodeStatus ==
    \E ln \in NextLines :
        /\ Read(ln)
        /\ Is(ln, "STATUS")
        /\ IF ~HasCursorTask THEN Panic
           ELSE CASE Value(ln) = "IN-PROGRESS" ->
                       SetCursorTask([CursorTask EXCEPT !.status = "InProgress"])
                  [] Value(ln) = "NEEDS-ACTION" ->
                       SetCursorTask([CursorTask EXCEPT !.status = "NeedsAction"])
                  [] Value(ln) = "COMPLETED" ->
                       SetCursorTask([CursorTask EXCEPT !.completed = TRUE,
                                                        !.status = "Completed"])
                  [] Value(ln) = "CANCELLED" ->
                       SetCursorTask([CursorTask EXCEPT !.status = "Cancelled"])
                  [] OTHER -> Fail("InvalidStatus")

\* parser.rs:140-142
DecodeDescription ==
    \E ln \in NextLines :
        /\ Read(ln)
        /\ Is(ln, "DESCRIPTION")
        /\ SetCursorTask([CursorTask EXCEPT !.description = ReplaceEscape(Value(ln))])

\* parser.rs:146-150
DecodeEnd ==
    \E ln \in NextLines :
        /\ Read(ln)
        /\ Is(ln, "END")
        /\ task_counter' = IF Value(ln) = "VTODO" THEN task_counter + 1 ELSE task_counter
        /\ UNCHANGED <<list, tasks>>
        /\ Continue

\* parser.rs:152-161
DecodeCreated ==
    \E ln \in NextLines :
        /\ Read(ln)
        /\ Is(ln, "CREATED")
        /\ LET date == ParseDateTime(Value(ln))
           IN  IF date.ok
               THEN SetCursorTask([CursorTask EXCEPT !.created = date.val])
               ELSE Fail("InvalidField")

\* The names the match of parser.rs:69-164 has an arm for.
RecognizedNames ==
    {"X-WR-CALNAME", "X-APPLE-CALENDAR-COLOR", "BEGIN", "SUMMARY", "DUE", "PRIORITY",
     "PERCENT-COMPLETE", "STATUS", "DESCRIPTION", "END", "CREATED"}

\* parser.rs:163: any other property does nothing.
DecodeOther ==
    \E ln \in NextLines :
        /\ Read(ln)
        /\ Property(ln).ok
        /\ Property(ln).has_value
        /\ Property(ln).name \notin RecognizedNames
        /\ UNCHANGED <<list, tasks, task_counter>>
        /\ Continue

\* parser.rs:170-172: the lexer has no more lines.
DecodeFinish ==
    /\ pc = "decode"
    /\ src # NoList => Len(rest) = 0
    /\ list' = [list EXCEPT !.tasks = tasks]
    /\ returned' = [list EXCEPT !.tasks = tasks]
    /\ result' = "Ok"
    /\ pc' = "done"
    /\ UNCHANGED <<src, ical_text, rest, line, nread, tasks, task_counter>>
    /\ UNCHANGED app_vars

Next ==
    \/ Encode
    \/ DecodeMalformed
    \/ DecodeNoValue
    \/ DecodeCalName
    \/ DecodeCalColor
    \/ DecodeBegin
    \/ DecodeSummary
    \/ DecodeDue
    \/ DecodePriority
    \/ DecodePercentComplete
    \/ DecodeStatus
    \/ DecodeDescription
    \/ DecodeEnd
    \/ DecodeCreated
    \/ DecodeOther
    \/ DecodeFinish

Spec == Init /\ [][Next]_vars

-----------------------------------------------------------------------------
(* Vocabulary of the properties *)

\* The names whose arm writes a field of the task at the cursor.
FieldNames ==
    {"SUMMARY", "DUE", "PRIORITY", "PERCENT-COMPLETE", "STATUS", "DESCRIPTION", "CREATED"}

\* The loop has read a line, and it is a property with a value named in N.
LastLineIn(N) ==
    /\ nread > 0
    /\ Property(line).ok
    /\ Property(line).has_value
    /\ Property(line).name \in N

\* A round trip is over: the text of src was written and read back.
RoundTripDone == src # NoList /\ pc = "done"

\* Every text the encoder writes unconditionally is non-empty, so that the
\* lexer finds a value on each of its lines.
NoEmptyText(l) ==
    /\ l.name # ""
    /\ \A i \in 1..Len(l.tasks) : l.tasks[i].summary # ""

StartsWith(s, prefix) ==
    Len(s) >= Len(prefix) /\ SubSeq(s, 1, Len(prefix)) = prefix

\* The lines of the i-th BEGIN:VTODO ... END:VTODO block of a text.
VtodoBlock(text, i) ==
    LET ls     == Lines(text)
        starts == { j \in 1..Len(ls) : ls[j] = "BEGIN:VTODO" }
        b      == CHOOSE j \in starts : Cardinality({ k \in starts : k <= j }) = i
        ends   == { j \in b..Len(ls) : ls[j] = "END:VTODO" }
        e      == CHOOSE j \in ends : \A k \in ends : j <= k
    IN  SubSeq(ls, b, e)

\* The lines of a block that start with prefix.
BlockLines(block, prefix) == SelectSeq(block, LAMBDA l : StartsWith(l, prefix))

\* A task without its sub-second creation time.
ToTheSecond(dt) == [dt EXCEPT !.ns = 0]

-----------------------------------------------------------------------------
(* C1 *)

\* Task t read back from the text of task o, field by field as C1 lists them.
SameTask(o, t) ==
    /\ t.summary = o.summary
    /\ t.progress = o.progress
    /\ t.priority = o.priority
    /\ t.due = o.due
    /\ t.description = o.description
    /\ ToTheSecond(t.created) = ToTheSecond(o.created)
    /\ ~o.completed => t.status = o.status

\* C1: decoding the text encode produced for a list with a non-empty name and
\* non-empty summaries returns a list with the same name, the same color and,
\* task by task in the same order, the same summary, progress, priority, due,
\* description and created (to the second), and the same status unless
\* completed was true.
C1_RoundTrip ==
    (RoundTripDone /\ NoEmptyText(src)) =>
        /\ result = "Ok"
        /\ returned.name = src.name
        /\ returned.color = src.color
        /\ Len(returned.tasks) = Len(src.tasks)
        /\ \A i \in 1..Len(src.tasks) : SameTask(src.tasks[i], returned.tasks[i])

-----------------------------------------------------------------------------
(* C2 *)

\* C2: a field-setting property that arrives when there is no task at the
\* cursor makes decode return InvalidFile.
C2_FieldWithoutTask ==
    (pc = "done" /\ LastLineIn(FieldNames) /\ ~HasCursorTask) => result = "InvalidFile"

-----------------------------------------------------------------------------
(* C3 *)

\* C3: a field-setting property that decode accepts writes to the task the
\* most recent BEGIN:VTODO appended, the last one of the buffer, and leaves
\* every other buffered task as it was, whether or not the block before it
\* was closed by END:VTODO.
C3_FieldsGoToNewestTask ==
    [][ ( /\ pc = "decode" /\ pc' = "decode"
          /\ nread' = nread + 1
          /\ Property(line').ok /\ Property(line').has_value
          /\ Property(line').name \in FieldNames )
        => /\ Len(tasks') = Len(tasks)
           /\ \A i \in 1..Len(tasks) : i # Len(tasks) => tasks'[i] = tasks[i] ]_vars

-----------------------------------------------------------------------------
(* C4 *)

\* The error decode ended with is the error of the last line it read.
ErrorOfLastLine ==
    /\ result = "InvalidFile" => (nread > 0 /\ ~Property(line).ok)
    /\ result = "NonTaskItem" => LastLineIn({"BEGIN"})
    /\ result = "InvalidStatus" => LastLineIn({"STATUS"})
    /\ result = "InvalidField" =>
          /\ nread > 0
          /\ Property(line).ok
          /\ \/ ~Property(line).has_value
             \/ Property(line).name \in {"DUE", "PRIORITY", "PERCENT-COMPLETE", "CREATED"}

\* C4: decode fails fast.  A malformed line ends decode with InvalidFile the
\* moment it is read; the error returned is the error of the last line read,
\* the first one that failed; once decode has ended no further line is read
\* and nothing changes; a list is returned only with Ok.
C4_FailFast ==
    /\ (nread > 0 /\ ~Property(line).ok) => (result = "InvalidFile" /\ pc = "done")
    /\ ErrorOfLastLine
    /\ result # "running" => (pc = "done" /\ ~ENABLED Next)
    /\ result # "Ok" => returned = NoList

\* A malformed line in the middle of a file, after a task was buffered.
C4_Witness ==
    /\ nread > 1
    /\ ~Property(line).ok
    /\ Len(tasks) > 0
    /\ result = "InvalidFile"

-----------------------------------------------------------------------------
(* C5 *)

\* C5: a BEGIN line with value VCALENDAR changes nothing of the decode state,
\* and a BEGIN line with a value other than VTODO and VCALENDAR ends decode
\* with NonTaskItem (the UnsupportedBlock error), wherever it stands.
C5_Begin ==
    [][ (pc = "decode" /\ nread' = nread + 1 /\ Is(line', "BEGIN"))
        => CASE Value(line') = "VCALENDAR" ->
                  /\ UNCHANGED <<list, tasks, task_counter, result, returned>>
                  /\ pc' = "decode"
             [] Value(line') = "VTODO" -> TRUE
             [] OTHER ->
                  /\ result' = "NonTaskItem"
                  /\ pc' = "done"
                  /\ returned' = NoList ]_vars

\* BEGIN:VEVENT inside an open VTODO block, not at the top of the file.
C5_Witness ==
    /\ line = "BEGIN:VEVENT"
    /\ nread > 1
    /\ Len(tasks) > 0
    /\ result = "NonTaskItem"

-----------------------------------------------------------------------------
(* C6 *)

StatusTokens == {"IN-PROGRESS", "NEEDS-ACTION", "COMPLETED", "CANCELLED"}

\* The value of the last line fails the parsing its property requires.
LastValueInvalid ==
    LET name  == Property(line).name
        value == Property(line).value
    IN  CASE name \in {"DUE", "CREATED"} -> ~ParseDateTime(value).ok
          [] name \in {"PRIORITY", "PERCENT-COMPLETE"} -> ~ParseU8(value).ok
          [] name = "STATUS" -> value \notin StatusTokens
          [] OTHER -> FALSE

\* C6: a value that is present but fails parsing for DUE, PRIORITY,
\* PERCENT-COMPLETE, STATUS or CREATED, read while a task is at the cursor,
\* ends decode with InvalidField.
C6_InvalidField ==
    ( /\ pc = "done"
      /\ LastLineIn({"DUE", "PRIORITY", "PERCENT-COMPLETE", "STATUS", "CREATED"})
      /\ LastValueInvalid
      /\ HasCursorTask )
    => result = "InvalidField"

-----------------------------------------------------------------------------
(* C7 *)

\* The STATUS line C7 expects for a task.
ExpectedStatusLine(task) ==
    IF task.completed THEN "STATUS:COMPLETED"
    ELSE IF task.status = "InProgress" THEN "STATUS:IN-PROGRESS"
    ELSE IF task.status = "NeedsAction" THEN "STATUS:NEEDS-ACTION"
    ELSE IF task.status = "Completed" THEN "STATUS:COMPLETED"
    ELSE "STATUS:CANCELLED"

\* C7: the block of every task holds exactly one STATUS line, STATUS:COMPLETED
\* when completed is true and the token of the status field otherwise; and
\* the text of a list whose name and summaries are non-empty decodes to a list
\* in which every task that was completed has status Completed and completed
\* true.
C7_StatusPrecedence ==
    RoundTripDone =>
        /\ \A i \in 1..Len(src.tasks) :
              BlockLines(VtodoBlock(ical_text, i), "STATUS:")
                  = << ExpectedStatusLine(src.tasks[i]) >>
        /\ NoEmptyText(src) =>
              /\ result = "Ok"
              /\ Len(returned.tasks) = Len(src.tasks)
              /\ \A i \in 1..Len(src.tasks) :
                    src.tasks[i].completed =>
                        /\ returned.tasks[i].status = "Completed"
                        /\ returned.tasks[i].completed

\* A completed task whose status field is not Completed was written and read
\* back, as the second task of its list.
C7_Witness ==
    /\ RoundTripDone
    /\ result = "Ok"
    /\ Len(src.tasks) = 2
    /\ src.tasks[2].completed
    /\ src.tasks[2].status = "Cancelled"
    /\ returned.tasks[2].status = "Completed"

-----------------------------------------------------------------------------
(* C8 *)

\* C8: every non-empty description comes back from decode exactly as it went
\* into encode.
C8_DescriptionRoundTrip ==
    (RoundTripDone /\ result = "Ok") =>
        \A i \in 1..Len(src.tasks) :
            src.tasks[i].description # "" =>
                returned.tasks[i].description = src.tasks[i].description

-----------------------------------------------------------------------------
(* C9 *)

\* Two upper-case hexadecimal digits for a channel, with a leading zero.
TwoHexDigits(n) == Char(HexDigits, (n \div 16) + 1) \o Char(HexDigits, (n % 16) + 1)

\* The value of the calendar-color line of a text.
ColorValue(text) ==
    LET found == SelectSeq(Lines(text), LAMBDA l : StartsWith(l, "X-APPLE-CALENDAR-COLOR:"))
    IN  SubSeq(found[1], Len("X-APPLE-CALENDAR-COLOR:") + 1, Len(found[1]))

\* C9: the calendar-color property is '#' followed by six upper-case
\* hexadecimal digits, two per channel.
C9_ColorSixDigits ==
    (src # NoList /\ pc # "encode") =>
        ColorValue(ical_text)
            = "#" \o TwoHexDigits(src.color.r) \o TwoHexDigits(src.color.g)
                  \o TwoHexDigits(src.color.b)

-----------------------------------------------------------------------------
(* C10 *)

\* The number of lines a zero-suppressed field gets.
LinesFor(n) == IF n = 0 THEN 0 ELSE 1

\* C10: the block of a task holds no PRIORITY line when priority is 0 and one
\* otherwise, no PERCENT-COMPLETE line when progress is 0 and one otherwise;
\* and the text of a list whose name and summaries are non-empty decodes to a
\* list with the original priority and progress in every task.
C10_ZeroSuppression ==
    RoundTripDone =>
        /\ \A i \in 1..Len(src.tasks) :
              LET block == VtodoBlock(ical_text, i)
              IN  /\ Len(BlockLines(block, "PRIORITY:")) = LinesFor(src.tasks[i].priority)
                  /\ Len(BlockLines(block, "PERCENT-COMPLETE:"))
                         = LinesFor(src.tasks[i].progress)
        /\ NoEmptyText(src) =>
              /\ result = "Ok"
              /\ Len(returned.tasks) = Len(src.tasks)
              /\ \A i \in 1..Len(src.tasks) :
                    /\ returned.tasks[i].priority = src.tasks[i].priority
                    /\ returned.tasks[i].progress = src.tasks[i].progress

\* A task with priority 0 and progress 0 and a task with both nonzero were
\* written and read back in one list.
C10_Witness ==
    /\ RoundTripDone
    /\ result = "Ok"
    /\ Len(src.tasks) = 2
    /\ src.tasks[1].priority = 0 /\ src.tasks[1].progress = 0
    /\ src.tasks[2].priority = 9 /\ src.tasks[2].progress = 47
    /\ returned.tasks[1].priority = 0 /\ returned.tasks[2].progress = 47

-----------------------------------------------------------------------------
(* C11 *)

\* The name of a line the encoder wrote: what precedes its first ':' or ';'.
LineName(ln) == Property(ln).name

\* The names of the lines of the block of a task, in the order of the claim.
ExpectedNames(task) ==
    << "BEGIN", "UID", "CREATED", "LAST-MODIFIED", "DTSTAMP", "SUMMARY" >>
      \o (IF task.due # NoDate THEN << "DUE" >> ELSE <<>>)
      \o (IF task.priority # 0 THEN << "PRIORITY" >> ELSE <<>>)
      \o (IF task.progress # 0 THEN << "PERCENT-COMPLETE" >> ELSE <<>>)
      \o << "STATUS" >>
      \o (IF task.description # "" THEN << "DESCRIPTION" >> ELSE <<>>)
      \o << "END" >>

\* The names of the lines of the header, in order.
HeaderNames ==
    << "BEGIN", "VERSION", "CALSCALE", "PRODID", "X-WR-CALNAME",
       "X-APPLE-CALENDAR-COLOR", "REFRESH-INTERVAL", "X-PUBLISHED-TTL" >>

RECURSIVE ExpectedFileNames(_)
\* The names of the lines of the blocks of a sequence of tasks.
ExpectedFileNames(ts) ==
    IF Len(ts) = 0 THEN <<>>
    ELSE ExpectedNames(Head(ts)) \o ExpectedFileNames(Tail(ts))

\* The text was written by the encoder.
Encoded == src # NoList /\ pc # "encode"

\* The i-th block of the text is the block of the i-th task: it carries the
\* task's identifier and the lines of the task in the fixed order.
BlockOfTask(i) ==
    LET block == VtodoBlock(ical_text, i)
    IN  /\ block[1] = "BEGIN:VTODO"
        /\ block[2] = "UID:" \o src.tasks[i].uuid
        /\ block[Len(block)] = "END:VTODO"
        /\ [k \in 1..Len(block) |-> LineName(block[k])] = ExpectedNames(src.tasks[i])

\* C11: the encoded text is the calendar header, then one block
\* BEGIN:VTODO ... END:VTODO per task in list order whose lines are UID,
\* CREATED, LAST-MODIFIED, DTSTAMP, SUMMARY, DUE, PRIORITY, PERCENT-COMPLETE,
\* STATUS, DESCRIPTION in that order (SUMMARY and STATUS always, DUE exactly
\* with a due date, DESCRIPTION exactly when non-empty), then a final line
\* END:VCALENDAR.
C11_BlockOrder ==
    Encoded =>
        LET ls == Lines(ical_text)
        IN  /\ ls[Len(ls)] = "END:VCALENDAR"
            /\ Cardinality({ j \in 1..Len(ls) : ls[j] = "BEGIN:VTODO" }) = Len(src.tasks)
            /\ \A i \in 1..Len(src.tasks) : BlockOfTask(i)
            /\ [k \in 1..Len(ls) |-> LineName(ls[k])]
                   = HeaderNames \o ExpectedFileNames(src.tasks) \o << "END" >>

-----------------------------------------------------------------------------
(* C13 *)

\* The ranges of the data model (the sliders of task_edit::full).
ProgressRange == 0..100

PriorityRange == 0..10

\* Decode has returned a list made from an arbitrary file.
FileDecoded == src = NoList /\ pc = "done" /\ result = "Ok"

\* C13: every task of a successfully decoded list has its progress in 0..100
\* and its priority in 0..10, whatever unsigned integers the lines carry.
C13_FieldRanges ==
    FileDecoded =>
        \A i \in 1..Len(returned.tasks) :
            /\ returned.tasks[i].progress \in ProgressRange
            /\ returned.tasks[i].priority \in PriorityRange

-----------------------------------------------------------------------------
(* C14 *)

\* C14: the UID line of a block sets the identifier of the task the block
\* makes, so that every task read back from encoded text has the identifier
\* it was written with.
C14_UidRoundTrip ==
    (RoundTripDone /\ result = "Ok" /\ NoEmptyText(src)) =>
        /\ Len(returned.tasks) = Len(src.tasks)
        /\ \A i \in 1..Len(src.tasks) : returned.tasks[i].uuid = src.tasks[i].uuid

-----------------------------------------------------------------------------
(* C16 *)

\* The step reads a well-formed property line.
ReadsProperty == pc = "decode" /\ nread' = nread + 1 /\ Property(line').ok

\* C16: a property line whose name the decoder has no arm for changes
\* nothing, with a value, with an empty one or with none: the list, the tasks
\* and the cursor stay as they are and decode goes on to the next line.
C16_UnknownIgnored ==
    [][(ReadsProperty /\ Property(line').name \notin RecognizedNames) =>
           /\ UNCHANGED <<list, tasks, task_counter>>
           /\ pc' = "decode"
           /\ result' = "running"]_vars

-----------------------------------------------------------------------------
(* C17 *)

\* The step reads a calendar-colour line that has a value.
ReadsColor ==
    /\ ReadsProperty
    /\ Property(line').has_value
    /\ Property(line').name = "X-APPLE-CALENDAR-COLOR"

\* C17: a calendar-colour value that does not parse as a hex colour is a soft
\* failure (the colour keeps its prior value), a value that parses overwrites
\* the colour, and either way the name, the tasks and the cursor are
\* unchanged and decode continues.
C17_ColorSoftFailure ==
    [][ReadsColor =>
           LET rgb == from_hex_str(Value(line'))
           IN  /\ list'.color = IF rgb.ok THEN rgb.val ELSE list.color
               /\ Value(line') = "#5382A3" => list'.color = Rgb(83, 130, 163)
               /\ Value(line') = "#582A3" => list'.color = list.color
               /\ list'.name = list.name
               /\ list'.tasks = list.tasks
               /\ UNCHANGED <<tasks, task_counter>>
               /\ pc' = "decode"
               /\ result' = "running"]_vars

\* A colour that does not parse was read after one that does: the parsed
\* colour is still there and decode is running.
C17_Witness ==
    /\ pc = "decode"
    /\ line = "X-APPLE-CALENDAR-COLOR:#582A3"
    /\ list.color = Rgb(83, 130, 163)

-----------------------------------------------------------------------------
(* Sort: TaskList::sort, src/src/task.rs:60-85 *)

\* Longest list handed to sort, in tasks.
MaxSortTasks == 3

\* enum TaskSort
TaskSort ==
    {"None", "Summary", "Completed", "Description", "Progress", "Priority", "Status", "Due"}

UpperCase == "ABCDEFGHIJKLMNOPQRSTUVWXYZ"

LowerCase == "abcdefghijklmnopqrstuvwxyz"

\* The printable characters in the order of their codes: from the space to
\* the underscore (codes 32 to 95) and from "a" to the tilde (97 to 126).
AsciiUpTo95 ==
    " !" \o "\"" \o "#$%&'()*+,-./0123456789:;<=>?@" \o UpperCase \o "[" \o BS \o "]^_"

AsciiFrom97 == LowerCase \o "{|}~"

\* The code of a character: strings compare byte by byte.
CharCode(c) ==
    IF c = NL THEN 10
    ELSE IF IndexOf(AsciiUpTo95, c) # 0 THEN IndexOf(AsciiUpTo95, c) + 31
    ELSE IndexOf(AsciiFrom97, c) + 96

RECURSIVE to_lowercase(_)
\* str::to_lowercase
to_lowercase(s) ==
    IF Len(s) = 0 THEN ""
    ELSE LET c == Char(s, 1)
             u == IndexOf(UpperCase, c)
         IN  (IF u # 0 THEN Char(LowerCase, u) ELSE c)
                 \o to_lowercase(SubSeq(s, 2, Len(s)))

\* Ord::cmp of two integers.
IntCmp(a, b) == IF a < b THEN "Less" ELSE IF a > b THEN "Greater" ELSE "Equal"

RECURSIVE StrCmp(_, _)
\* Ord::cmp of two strings: lexicographic, a prefix before its extensions.
StrCmp(a, b) ==
    IF Len(a) = 0 /\ Len(b) = 0 THEN "Equal"
    ELSE IF Len(a) = 0 THEN "Less"
    ELSE IF Len(b) = 0 THEN "Greater"
    ELSE IF Char(a, 1) # Char(b, 1) THEN IntCmp(CharCode(Char(a, 1)), CharCode(Char(b, 1)))
    ELSE StrCmp(SubSeq(a, 2, Len(a)), SubSeq(b, 2, Len(b)))

\* Ord::cmp of two booleans: false before true.
BoolCmp(a, b) == IntCmp(IF a THEN 1 ELSE 0, IF b THEN 1 ELSE 0)

\* Ord::cmp of two NaiveDate: by year, then month, then day.
DateCmp(a, b) ==
    IF a.y # b.y THEN IntCmp(a.y, b.y)
    ELSE IF a.m # b.m THEN IntCmp(a.m, b.m)
    ELSE IntCmp(a.d, b.d)

\* StatusOrdinal with NeedsAction declared first.
StatusOrdinal_NeedsActionFirst(status) ==
    CASE status = "NeedsAction" -> 0
      [] status = "InProgress"  -> 1
      [] status = "Completed"   -> 2
      [] status = "Cancelled"   -> 3

\* #[derive(PartialOrd)] on enum TaskStatus (task.rs:107-114): the variants
\* compare by the position of their declaration.
StatusOrdinal(status) ==
    CASE status = "InProgress"  -> 0
      [] status = "NeedsAction" -> 1
      [] status = "Completed"   -> 2
      [] status = "Cancelled"   -> 3

\* DueCompare with the tasks that have no due date put first.
DueCompare_UndatedFirst(a, b) ==
    IF a.due # NoDate
    THEN (IF b.due # NoDate THEN DateCmp(a.due, b.due) ELSE "Greater")
    ELSE "Less"

\* The closure of the arm TaskSort::Due (task.rs:72-82).
DueCompare(a, b) ==
    IF a.due # NoDate
    THEN (IF b.due # NoDate THEN DateCmp(a.due, b.due) ELSE "Less")
    ELSE "Greater"

\* The closure sort_by is given for each key (task.rs:63-82).
Compare(key, a, b) ==
    CASE key = "Summary"     -> StrCmp(to_lowercase(a.summary), to_lowercase(b.summary))
      [] key = "Completed"   -> BoolCmp(a.completed, b.completed)
      [] key = "Description" -> StrCmp(to_lowercase(a.description),
                                       to_lowercase(b.description))
      [] key = "Progress"    -> IntCmp(a.progress, b.progress)
      [] key = "Priority"    -> IntCmp(a.priority, b.priority)
      [] key = "Status"      -> IntCmp(StatusOrdinal(a.status), StatusOrdinal(b.status))
      [] key = "Due"         -> DueCompare(a, b)

\* slice::sort_by asks one question of its closure: is a before b.
IsLess(key, a, b) == Compare(key, a, b) = "Less"

RECURSIVE InsertTail(_, _, _)
\* The task x is put at the end of the sorted run q and moves towards the
\* head while it is less than the task before it.
InsertTail(q, x, key) ==
    IF Len(q) = 0 \/ ~IsLess(key, x, q[Len(q)]) THEN Append(q, x)
    ELSE Append(InsertTail(SubSeq(q, 1, Len(q) - 1), x, key), q[Len(q)])

RECURSIVE InsertionSort(_, _, _)
\* The tasks of ts are inserted one by one, in order, into the run q.
InsertionSort(q, ts, key) ==
    IF Len(ts) = 0 THEN q
    ELSE InsertionSort(InsertTail(q, Head(ts), key), Tail(ts), key)

\* slice::sort_by: the stable sort of the standard library, an insertion
\* sort for the short slices of the model.
sort_by_key(ts, key) == InsertionSort(<<>>, ts, key)

\* TaskList::sort
sort(l, key) ==
    IF key = "None" THEN l ELSE [l EXCEPT !.tasks = sort_by_key(l.tasks, key)]

Due0 == Date(2023, 2, 28)

\* The tasks handed to sort: keys that differ, keys that are equal (also up
\* to case), tasks with and without a due date.
SortTasks ==
    { [DefaultTask EXCEPT !.uuid = "s1", !.summary = "b", !.status = "NeedsAction"],
      [DefaultTask EXCEPT !.uuid = "s2", !.summary = "A", !.completed = TRUE,
                          !.description = "x", !.progress = 47, !.priority = 9,
                          !.due = Due1],
      [DefaultTask EXCEPT !.uuid = "s3", !.summary = "a", !.completed = TRUE,
                          !.description = "X", !.progress = 47,
                          !.status = "Completed", !.due = Due0],
      [DefaultTask EXCEPT !.uuid = "s4", !.summary = "B", !.progress = 100,
                          !.priority = 9, !.status = "Cancelled"],
      [DefaultTask EXCEPT !.uuid = "s5", !.summary = "ab", !.description = "x",
                          !.priority = 10, !.due = Due1] }

\* The sequences of SeqsUpTo whose tasks are all different.
SortLists ==
    { ts \in SeqsUpTo(SortTasks, MaxSortTasks) :
          \A i, j \in 1..Len(ts) : i # j => ts[i] # ts[j] }

\* The codec is not run.
CodecIdle ==
    /\ src = NoList
    /\ ical_text = ""
    /\ rest = <<>>
    /\ line = ""
    /\ nread = 0
    /\ list = DefaultList
    /\ tasks = <<>>
    /\ task_counter = 0
    /\ result = "running"
    /\ returned = NoList
    /\ pc = "idle"

InitSort ==
    /\ CodecIdle
    /\ input_task = DefaultTask
    /\ input_task_list \in { [DefaultList EXCEPT !.tasks = ts] : ts \in SortLists }
    /\ show_completed_tasks = FALSE
    /\ sort_by = "None"
    /\ show_full_edit = FALSE
    /\ import_dialog = "None"
    /\ imported_list = None
    /\ export_dialog = "None"
    /\ presort = <<>>
    /\ disk = NoFile
    /\ crashed = FALSE

\* self.input_task_list.sort(self.sort_by), for every key.
Sort ==
    \E key \in TaskSort :
        /\ sort_by' = key
        /\ presort' = input_task_list.tasks
        /\ input_task_list' = sort(input_task_list, key)
        /\ UNCHANGED <<input_task, show_completed_tasks, show_full_edit,
                       import_dialog, imported_list, export_dialog, disk, crashed>>
        /\ UNCHANGED codec_vars

NextSort == Sort

SpecSort == InitSort /\ [][NextSort]_vars

\* A sort with key k has just been applied to the tasks presort.
Sorted(k) == sort_by = k /\ Len(presort) > 0

\* The sequence q holds the tasks of the sequence p, each as often as p does.
IsPermutation(q, p) ==
    /\ Len(q) = Len(p)
    /\ \A x \in SortTasks :
           Cardinality({ i \in 1..Len(q) : q[i] = x })
               = Cardinality({ i \in 1..Len(p) : p[i] = x })

\* Position of the task x in the sequence q.
PositionIn(q, x) == CHOOSE i \in 1..Len(q) : q[i] = x

-----------------------------------------------------------------------------
(* C18 *)

\* A date as one number that grows with the date.
DayNumber(date) == date.y * 10000 + date.m * 100 + date.d

\* C18: after a sort by due date the list holds the same tasks, every task
\* with a due date stands before every task with none, and the tasks with a
\* due date stand in ascending order of the date.
C18_DueOrder ==
    Sorted("Due") =>
        LET ts == input_task_list.tasks
        IN  /\ IsPermutation(ts, presort)
            /\ \A i, j \in 1..Len(ts) :
                   i < j =>
                       /\ ts[i].due = NoDate => ts[j].due = NoDate
                       /\ (ts[i].due # NoDate /\ ts[j].due # NoDate)
                              => DayNumber(ts[i].due) <= DayNumber(ts[j].due)

\* A list that began with a task without a due date and held two dated tasks
\* in descending order has been sorted by due date.
C18_Witness ==
    /\ Sorted("Due")
    /\ Len(presort) = 3
    /\ presort[1].due = NoDate
    /\ presort[2].due = Due1
    /\ presort[3].due = Due0
    /\ input_task_list.tasks = << presort[3], presort[2], presort[1] >>

-----------------------------------------------------------------------------
(* C19 *)

\* The key of a task under a sort key.
KeyOf(key, task) ==
    CASE key = "Summary"     -> to_lowercase(task.summary)
      [] key = "Completed"   -> task.completed
      [] key = "Description" -> to_lowercase(task.description)
      [] key = "Progress"    -> task.progress
      [] key = "Priority"    -> task.priority
      [] key = "Status"      -> task.status
      [] key = "Due"         -> task.due

\* The tasks of a sequence.
TasksOf(q) == { q[i] : i \in 1..Len(q) }

\* The comparison of a key is consistent on every two tasks of q.
ConsistentOn(key, q) ==
    \A a, b \in TasksOf(q) :
        a # b =>
            /\ ~(Compare(key, a, b) = "Greater" /\ Compare(key, b, a) = "Greater")
            /\ KeyOf(key, a) = KeyOf(key, b) => Compare(key, a, b) = "Equal"

\* Tasks of p with equal keys stand in q in the order they have in p.
KeepsOrderOfEqualKeys(key, p, q) ==
    \A a, b \in TasksOf(p) :
        (KeyOf(key, a) = KeyOf(key, b) /\ PositionIn(p, a) < PositionIn(p, b))
            => PositionIn(q, a) < PositionIn(q, b)

\* C19: for every sort key the comparison sort uses is consistent (a against
\* b and b against a are never both 'greater', tasks with the same key compare
\* equal) and the sort keeps tasks with equal keys in their relative order,
\* two tasks without a due date under the key Due included.
C19_StableTotalOrder ==
    \A key \in TaskSort \ {"None"} :
        Sorted(key) =>
            /\ ConsistentOn(key, presort)
            /\ KeepsOrderOfEqualKeys(key, presort, input_task_list.tasks)

-----------------------------------------------------------------------------
(* C20 *)

\* The order of the statuses the specification names, and the order enum
\* TaskStatus declares.
ClaimedStatusOrder == << "NeedsAction", "InProgress", "Completed", "Cancelled" >>

DeclaredStatusOrder == << "InProgress", "NeedsAction", "Completed", "Cancelled" >>

\* The list is in the order of the statuses given.
InStatusOrder(order) ==
    LET ts == input_task_list.tasks
    IN  \A i, j \in 1..Len(ts) :
            i < j => PositionIn(order, ts[i].status) <= PositionIn(order, ts[j].status)

\* C20 as stated: after a sort by status the tasks stand in the order
\* NeedsAction, InProgress, Completed, Cancelled.
C20_ClaimedStatusOrder == Sorted("Status") => InStatusOrder(ClaimedStatusOrder)

\* C20 amended: after a sort by status the list holds the same tasks in the
\* order InProgress, NeedsAction, Completed, Cancelled, the order in which
\* enum TaskStatus declares its variants.
C20_DeclaredStatusOrder ==
    Sorted("Status") =>
        /\ IsPermutation(input_task_list.tasks, presort)
        /\ InStatusOrder(DeclaredStatusOrder)

\* A list with a NeedsAction task before an InProgress one has been sorted by
\* status, and the InProgress task now stands first.
C20_Witness ==
    /\ Sorted("Status")
    /\ Len(presort) = 3
    /\ presort[1].status = "Cancelled"
    /\ presort[2].status = "NeedsAction"
    /\ presort[3].status = "InProgress"
    /\ input_task_list.tasks = << presort[3], presort[2], presort[1] >>

-----------------------------------------------------------------------------
(* The app: App::update, src/src/app.rs:48-281.  One frame is one action:   *)
(* the whole of update, run with the one widget the user acts on in that    *)
(* frame (ev).  The widgets for summary, description, progress, priority,   *)
(* due date and list name change no state the frame reads and are left out. *)

\* Longest list the user builds with the add buttons, in tasks.
MaxAppTasks == 2

\* enum TaskStatus, in the order of TaskStatus::iterator().
StatusOptions == { "InProgress", "NeedsAction", "Completed", "Cancelled" }

\* The events of a frame: the widget the user acts on, the row i it belongs
\* to (0: no row) and what the user chooses.
Ev(kind) == [kind |-> kind, i |-> 0]

RowEv(kind, i) == [kind |-> kind, i |-> i]

StatusEv(kind, i, status) == [kind |-> kind, i |-> i, status |-> status]

\* task_edit::full (task_edit.rs:28-88) on the input task (target "input")
\* or on the task of a modal (target "modal"): the status dropdown, the
\* checkbox, then the status decides the checkbox.
full(task, ev, target) ==
    LET t1 == IF ev.kind = target \o "_status"
              THEN [task EXCEPT !.status = ev.status] ELSE task
        t2 == IF ev.kind = target \o "_completed"
              THEN [t1 EXCEPT !.completed = ~t1.completed] ELSE t1
    IN  IF t2.status = "Completed" THEN [t2 EXCEPT !.completed = TRUE] ELSE t2

\* task_edit::lite (task_edit.rs:16-26): the checkbox.
lite(task, ev) ==
    IF ev.kind = "input_completed" THEN [task EXCEPT !.completed = ~task.completed]
    ELSE task

\* task_modal::spawn (task_modal.rs:11-41): the full editor and the close
\* button.
spawn(task, ev) ==
    LET t1 == full(task, ev, "modal")
    IN  IF ev.kind = "modal_close" THEN [t1 EXCEPT !.show_modal = FALSE] ELSE t1

\* The row of a task is drawn (task_views.rs:48).
Visible(task, show) == show \/ ~task.completed

\* DisplayRow without task_views.rs:128-130: the status of a row does not
\* decide its checkbox.
DisplayRow_NoForce(task, ev, mine, show) ==
    LET row == Visible(task, show)
        t1  == IF row /\ mine /\ ev.kind = "row_completed"
               THEN [task EXCEPT !.completed = ~task.completed] ELSE task
        t2  == IF row /\ mine /\ ev.kind = "row_modal"
               THEN [t1 EXCEPT !.show_modal = TRUE] ELSE t1
        t3  == IF row /\ mine /\ ev.kind = "row_status" /\ t2.status # "InProgress"
               THEN [t2 EXCEPT !.status = ev.status] ELSE t2
    IN  IF t3.show_modal THEN spawn(t3, IF mine THEN ev ELSE Ev("none")) ELSE t3

\* One call of the closure of retain_mut (task_views.rs:43-139) on a task;
\* mine: the event of the frame is for a widget of this task.  The checkbox,
\* the "..." button, the status dropdown (not drawn for InProgress), the
\* status deciding the checkbox, then the modal.
DisplayRow(task, ev, mine, show) ==
    LET row == Visible(task, show)
        t1  == IF row /\ mine /\ ev.kind = "row_completed"
               THEN [task EXCEPT !.completed = ~task.completed] ELSE task
        t2  == IF row /\ mine /\ ev.kind = "row_modal"
               THEN [t1 EXCEPT !.show_modal = TRUE] ELSE t1
        t3  == IF row /\ mine /\ ev.kind = "row_status" /\ t2.status # "InProgress"
               THEN [t2 EXCEPT !.status = ev.status] ELSE t2
        t4  == IF row /\ t3.status = "Completed"
               THEN [t3 EXCEPT !.completed = TRUE] ELSE t3
    IN  IF t4.show_modal THEN spawn(t4, IF mine THEN ev ELSE Ev("none")) ELSE t4

\* The value the closure returns: the remove button was not clicked.
Keep(task, ev, mine, show) ==
    ~(Visible(task, show) /\ mine /\ ev.kind = "row_remove")

RECURSIVE DisplayFrom(_, _, _, _)
\* retain_mut from the task at index i on.
DisplayFrom(ts, i, ev, show) ==
    IF i > Len(ts) THEN <<>>
    ELSE LET mine == ev.i = i
         IN  (IF Keep(ts[i], ev, mine, show)
              THEN << DisplayRow(ts[i], ev, mine, show) >> ELSE <<>>)
               \o DisplayFrom(ts, i + 1, ev, show)

\* ClassicView::display (task_views.rs:28-140)
display(l, ev, show) == [l EXCEPT !.tasks = DisplayFrom(l.tasks, 1, ev, show)]

\* The task the "+" button adds (app.rs:198-202).
LiteTask(task) ==
    [DefaultTask EXCEPT !.summary = task.summary, !.completed = task.completed]

\* FileDialog::show: an open dialog stays open until the user picks a file
\* or cancels, and selected() holds in the frame of the pick only.
ShowDialog(dialog, ev, pick, cancel) ==
    IF dialog = "Open" /\ ev.kind \in {pick, cancel} THEN "Closed"
    ELSE IF dialog = "Open" THEN "Open"
    ELSE IF dialog = "None" THEN "None"
    ELSE "Closed"

\* A click on the button that opens one file dialog sets the field of the
\* other dialog to None (app.rs:74, app.rs:137).
DiscardOther_Keep(other, ev, button) == other

DiscardOther(other, ev, button) ==
    IF ev.kind = button THEN "None" ELSE other

\* The parse result of the file picked in this frame replaces the stored one,
\* whatever the two are (app.rs:93-98).
StoreParse_KeepSuccess(stored, ev, picked) ==
    IF picked /\ ~(stored # None /\ stored.ok /\ ~ev.parsed.ok)
    THEN ev.parsed ELSE stored

StoreParse(stored, ev, picked) ==
    IF picked THEN ev.parsed ELSE stored

\* App::update with the event ev.
Frame(ev) ==
    LET \* The import panel (app.rs:62-125).
        import1   == IF ev.kind = "open_file" THEN "Open" ELSE import_dialog
        export1   == DiscardOther(export_dialog, ev, "open_file")
        picked    == import1 = "Open" /\ ev.kind = "pick_import"
        import2   == ShowDialog(import1, ev, "pick_import", "cancel_import")
        imported1 == StoreParse(imported_list, ev, picked)
        list1     == IF imported1 # None /\ imported1.ok /\ ev.kind = "import"
                     THEN imported1.list ELSE input_task_list
        \* The export panel (app.rs:128-162).
        import3   == DiscardOther(import2, ev, "export")
        export2   == IF ev.kind = "export" THEN "Open" ELSE export1
        saving    == export2 = "Open" /\ ev.kind = "pick_export"
        export3   == ShowDialog(export2, ev, "pick_export", "cancel_export")
        \* The task input panel (app.rs:165-229).
        input1    == IF show_full_edit THEN full(input_task, ev, "input") ELSE input_task
        adding    == ev.kind = "add"
        list2     == IF adding
                     THEN [list1 EXCEPT !.tasks =
                              Append(@, IF show_full_edit THEN input1
                                        ELSE LiteTask(input1))]
                     ELSE list1
        show1     == IF adding /\ input1.completed THEN TRUE ELSE show_completed_tasks
        input2    == IF show_full_edit THEN input1 ELSE lite(input1, ev)
        full1     == IF ev.kind = "toggle_full_edit" THEN ~show_full_edit ELSE show_full_edit
        \* The task list panel (app.rs:232-279).
        show2     == IF ev.kind = "show_completed" THEN ~show1 ELSE show1
        sorting   == ev.kind = "sort"
        list3     == IF sorting THEN sort(list2, sort_by) ELSE list2
        sort1     == IF ev.kind = "sort_by" THEN ev.key ELSE sort_by
    IN  /\ UNCHANGED codec_vars
        /\ IF saving /\ ~(ev.create_ok /\ ev.write_ok)
           THEN \* File::create(file).unwrap() or f.write(..).unwrap() panics
                \* (app.rs:152-154); File::create has emptied the file if it
                \* returned.
                /\ crashed' = TRUE
                /\ disk' = IF ev.create_ok THEN File("") ELSE disk
                /\ UNCHANGED <<input_task, input_task_list, show_completed_tasks,
                               sort_by, show_full_edit, import_dialog, imported_list,
                               export_dialog, presort>>
           ELSE /\ crashed' = FALSE
                /\ disk' = IF saving THEN File(to_ical_string(list1)) ELSE disk
                /\ import_dialog' = import3
                /\ imported_list' = imported1
                /\ export_dialog' = export3
                /\ input_task' = input2
                /\ show_full_edit' = full1
                /\ show_completed_tasks' = show2
                /\ sort_by' = sort1
                /\ presort' = IF sorting THEN list2.tasks ELSE presort
                /\ input_task_list' = display(list3, ev, show2)

\* The results from_ical_file stores for the files the user picks: a list
\* with a completed task, an empty list, and two errors.
ImportResults ==
    { [ok |-> TRUE, err |-> "",
       list |-> [name |-> "T", color |-> Rgb(83, 130, 163),
                 tasks |-> << [DefaultTask EXCEPT !.status = "Completed",
                                                  !.completed = TRUE] >>]],
      [ok |-> TRUE, err |-> "", list |-> [DefaultList EXCEPT !.name = "T"]],
      [ok |-> FALSE, err |-> "InvalidFile", list |-> DefaultList],
      [ok |-> FALSE, err |-> "InvalidField", list |-> DefaultList] }

\* The text of a file that is at the path before the app runs.
OldText == "old"

\* The rows of the list.
Rows == 1..Len(input_task_list.tasks)

\* The row i is drawn in this frame.
RowVisible(i) == Visible(input_task_list.tasks[i], show_completed_tasks)

\* update is called: the app runs.
Running == pc = "idle" /\ ~crashed

\* The frames, one per widget.
ClickOpenFile == Running /\ Frame(Ev("open_file"))

PickImportFile ==
    \E parsed \in ImportResults :
        /\ Running
        /\ import_dialog = "Open"
        /\ Frame([kind |-> "pick_import", i |-> 0, parsed |-> parsed])

CancelImport == Running /\ import_dialog = "Open" /\ Frame(Ev("cancel_import"))

ClickImport ==
    /\ Running
    /\ imported_list # None
    /\ imported_list.ok
    /\ Frame(Ev("import"))

ClickExport == Running /\ Frame(Ev("export"))

PickExportFile ==
    \E create_ok, write_ok \in BOOLEAN :
        /\ Running
        /\ export_dialog = "Open"
        /\ Frame([kind |-> "pick_export", i |-> 0,
                  create_ok |-> create_ok, write_ok |-> write_ok])

CancelExport == Running /\ export_dialog = "Open" /\ Frame(Ev("cancel_export"))

SelectInputStatus ==
    \E status \in StatusOptions :
        /\ Running
        /\ show_full_edit
        /\ Frame(StatusEv("input_status", 0, status))

ToggleInputCompleted == Running /\ Frame(Ev("input_completed"))

ClickAddTask ==
    /\ Running
    /\ Len(input_task_list.tasks) < MaxAppTasks
    /\ Frame(Ev("add"))

ToggleFullEdit == Running /\ Frame(Ev("toggle_full_edit"))

ToggleShowCompleted == Running /\ Frame(Ev("show_completed"))

ToggleRowCompleted ==
    \E i \in Rows : Running /\ RowVisible(i) /\ Frame(RowEv("row_completed", i))

SelectRowStatus ==
    \E i \in Rows, status \in StatusOptions :
        /\ Running
        /\ RowVisible(i)
        /\ input_task_list.tasks[i].status # "InProgress"
        /\ Frame(StatusEv("row_status", i, status))

ClickRowModal ==
    \E i \in Rows : Running /\ RowVisible(i) /\ Frame(RowEv("row_modal", i))

ClickRowRemove ==
    \E i \in Rows : Running /\ RowVisible(i) /\ Frame(RowEv("row_remove", i))

SelectModalStatus ==
    \E i \in Rows, status \in StatusOptions :
        /\ Running
        /\ input_task_list.tasks[i].show_modal
        /\ Frame(StatusEv("modal_status", i, status))

ToggleModalCompleted ==
    \E i \in Rows :
        /\ Running
        /\ input_task_list.tasks[i].show_modal
        /\ Frame(RowEv("modal_completed", i))

CloseModal ==
    \E i \in Rows :
        /\ Running
        /\ input_task_list.tasks[i].show_modal
        /\ Frame(RowEv("modal_close", i))

\* The app starts; the codec is run by the import and export panels only.
InitApp ==
    /\ CodecIdle
    /\ AppNew
    /\ disk = NoFile
    /\ crashed = FALSE

\* The frames that edit the tasks.
NextApp ==
    \/ SelectInputStatus
    \/ ToggleInputCompleted
    \/ ClickAddTask
    \/ ToggleFullEdit
    \/ ToggleShowCompleted
    \/ ToggleRowCompleted
    \/ SelectRowStatus
    \/ ClickRowModal
    \/ ClickRowRemove
    \/ SelectModalStatus
    \/ ToggleModalCompleted
    \/ CloseModal

\* The codec reading files and encoded lists, and the app editing its list.
SpecProgram == (Init \/ InitApp) /\ [][Next \/ NextApp]_vars

\* The app starts with or without a file at the path of the export dialog.
InitFiles ==
    /\ CodecIdle
    /\ AppNew
    /\ disk \in { NoFile, File(OldText) }
    /\ crashed = FALSE

\* The frames of the import and export panels, and those that add tasks.
NextFiles ==
    \/ ClickOpenFile
    \/ PickImportFile
    \/ CancelImport
    \/ ClickImport
    \/ ClickExport
    \/ PickExportFile
    \/ CancelExport
    \/ ToggleInputCompleted
    \/ ClickAddTask

SpecFiles == InitFiles /\ [][NextFiles]_vars

-----------------------------------------------------------------------------
(* C12 *)

\* A task whose status is Completed has its checkbox set.
CompletedIsChecked(task) == task.status = "Completed" => task.completed

\* In every list decode returns and in the list of the app at the end of
\* every frame, a task whose status is Completed is completed.
C12_CompletedImpliesChecked ==
    /\ (pc = "done" /\ result = "Ok") =>
           \A i \in 1..Len(returned.tasks) : CompletedIsChecked(returned.tasks[i])
    /\ pc = "idle" => \A i \in Rows : CompletedIsChecked(input_task_list.tasks[i])

\* The checkbox of the input task (in either editor), of a row or of a modal,
\* clicked on a task of the app that is not completed, sets completed and
\* leaves the status of the task as it was.
C12_CheckboxKeepsStatus ==
    pc = "idle" =>
        /\ ~input_task.completed =>
               LET edited == IF show_full_edit
                             THEN full(input_task, Ev("input_completed"), "input")
                             ELSE lite(input_task, Ev("input_completed"))
               IN  edited.completed /\ edited.status = input_task.status
        /\ \A i \in Rows :
               LET task == input_task_list.tasks[i]
                   row  == DisplayRow(task, RowEv("row_completed", i), TRUE,
                                      show_completed_tasks)
                   edit == DisplayRow(task, RowEv("modal_completed", i), TRUE,
                                      show_completed_tasks)
               IN  /\ (~task.completed /\ RowVisible(i))
                          => row.completed /\ row.status = task.status
                   /\ (~task.completed /\ task.show_modal)
                          => edit.completed /\ edit.status = task.status

\* C12: status == Completed implies completed == true in every task of a
\* list returned by decode and of the app's list at the end of every frame,
\* after any sequence of status selections, checkbox toggles and task
\* additions; setting completed through a checkbox leaves the status
\* unchanged.
C12_StatusCompleted == C12_CompletedImpliesChecked /\ C12_CheckboxKeepsStatus

\* The list of the app shows a task whose status Completed keeps its checkbox
\* set, and a task set completed by its checkbox whose status is NeedsAction.
C12_Witness ==
    /\ pc = "idle"
    /\ show_completed_tasks
    /\ \E i, j \in Rows :
           /\ input_task_list.tasks[i].status = "Completed"
           /\ input_task_list.tasks[i].completed
           /\ input_task_list.tasks[j].status = "NeedsAction"
           /\ input_task_list.tasks[j].completed

-----------------------------------------------------------------------------
(* C15 *)

\* C15: the write of the exported text fails when there is a file at the
\* path and leaves its content as it was, and a failure of the write never
\* crashes the app.
C15_WriteFailsSafely ==
    [](~crashed) /\ [][disk.exists => disk' = disk]_vars

-----------------------------------------------------------------------------
(* C21 *)

\* The step reads a line that opens a VTODO block.
ReadsBeginVtodo ==
    /\ ReadsProperty
    /\ Property(line').has_value
    /\ Property(line').name = "BEGIN"
    /\ Value(line') = "VTODO"

\* The step reads a field-setting line and decode goes on.
AcceptsField ==
    /\ ReadsProperty
    /\ Property(line').has_value
    /\ Property(line').name \in FieldNames
    /\ pc' = "decode"

\* Every BEGIN:VTODO line adds one default task at the end of the buffer and
\* no other line changes the number or the order of the buffered tasks.
C21_OneTaskPerBegin ==
    /\ ReadsBeginVtodo => tasks' = Append(tasks, DefaultTask)
    /\ (pc = "decode" /\ ~ReadsBeginVtodo) => Len(tasks') = Len(tasks)

\* A field-setting line writes to the task of its own block, the block the
\* last BEGIN:VTODO line opened, and to no other task; a SUMMARY line
\* leaves its value there.
C21_FieldsOfOwnBlock ==
    AcceptsField =>
        /\ \A i \in 1..Len(tasks) : i # Len(tasks) => tasks'[i] = tasks[i]
        /\ Property(line').name = "SUMMARY"
               => tasks'[Len(tasks)].summary = Value(line')

\* The list decode returns holds the buffered tasks in their order.
C21_ReturnsBuffer ==
    (pc = "decode" /\ pc' = "done" /\ result' = "Ok") => returned'.tasks = tasks

\* C21: a successful decode returns exactly one task per BEGIN:VTODO line, in
\* the order the blocks were opened, and each task carries the values set by
\* the property lines of its own block, the other fields keeping their
\* defaults.
C21_TasksOfBlocks ==
    [][C21_OneTaskPerBegin /\ C21_FieldsOfOwnBlock /\ C21_ReturnsBuffer]_vars

-----------------------------------------------------------------------------
(* C22 *)

\* The rows of the current list whose details modal is shown.
OpenModals == {i \in Rows : input_task_list.tasks[i].show_modal}

\* C22: at most one task has its details modal visible at any time; a click
\* on the "..." button of a task opens no modal while the modal of another
\* task is open.
C22_AtMostOneModal == Cardinality(OpenModals) <= 1

-----------------------------------------------------------------------------
(* C23 *)

\* The app state holds a dialog in the field (Some), open or closed.
Present(dialog) == dialog # "None"

\* C23: after any sequence of clicks on "Open file" and "Export task list",
\* the import dialog and the export dialog are never both present in the app
\* state; opening one discards the other.
C23_OneDialog == ~(Present(import_dialog) /\ Present(export_dialog))

\* The export dialog is open after the import dialog was used to pick a file,
\* or the import dialog is open with a file written through the export dialog.
C23_Witness ==
    \/ export_dialog = "Open" /\ imported_list # None
    \/ import_dialog = "Open" /\ disk.exists /\ disk # File(OldText)

-----------------------------------------------------------------------------
(* C24 *)

\* The frame in which the user picks, in the import dialog, a file that
\* from_ical_file decodes to parsed.
Picks(parsed) ==
    /\ Running
    /\ import_dialog = "Open"
    /\ Frame([kind |-> "pick_import", i |-> 0, parsed |-> parsed])

\* A parse result is stored and it is a successful one.
StoredSuccess(stored) == stored # None /\ stored.ok

\* The Import button replaces the current list with the decoded list, and
\* besides "Add task" no other frame of the file panels changes the list.
C24_ImportReplaces ==
    /\ ClickImport => input_task_list' = imported_list.list
    /\ (input_task_list' # input_task_list /\ ~ClickAddTask)
           => /\ StoredSuccess(imported_list)
              /\ input_task_list' = imported_list.list

\* Picking a file stores its parse result in place of the earlier one and
\* leaves the current list alone; once a failure is stored, a frame changes
\* the list by "Add task" only.
C24_PickStores ==
    /\ \A parsed \in ImportResults :
           Picks(parsed) => /\ imported_list' = parsed
                            /\ input_task_list' = input_task_list
    /\ (~StoredSuccess(imported_list) /\ ~ClickAddTask)
           => input_task_list' = input_task_list

\* C24: the current task list is replaced through import only when the
\* Import button is clicked while the stored parse result is a successful
\* one, and it then equals the decoded list; picking a file whose decode
\* fails never changes the current list, and a later failed decode replaces
\* an earlier stored success, which can then no longer be imported.
C24_ImportStoredSuccess == [][C24_ImportReplaces /\ C24_PickStores]_vars

\* A failure is stored and the current list is one that was imported from an
\* earlier stored success.
C24_Witness ==
    /\ imported_list # None
    /\ ~imported_list.ok
    /\ input_task_list.name = "T"

-----------------------------------------------------------------------------
(* C25 *)

\* C25: in every state reached while decoding, the cursor index is at most
\* the number of buffered tasks, so that a field-setting line right after a
\* BEGIN:VTODO line finds a task at the cursor; an END:VTODO line with no
\* open block does not move the cursor past the end of the buffer.
C25_CursorInBuffer == task_counter <= Len(tasks)

=============================================================================
